---------------------------- MODULE Spec2Model ----------------------------
(***************************************************************************)
(* Training-loop orchestration of the two pretraining drivers:             *)
(*   src/pretrain/autoregressive-model.py  (ReformerTrainer)               *)
(*   src/pretrain/electra-model.py         (ElectraTrainer, LR schedule)   *)
(* The numerical components (forward pass, Adafactor/AdamW update) are     *)
(* opaque: the model weights are abstracted to the number of optimizer     *)
(* updates they have received, gradients to the number of backward passes  *)
(* accumulated in them since they were last zeroed.                        *)
(***************************************************************************)
EXTENDS Integers, FiniteSets, Sequences, TLC

\* ------------------------------------------------------------------ bounds
MaxEpochs == 2
MaxLen == 3
MaxEvalLen == 1
MaxBatch == 2
MaxPeriod == 2
MaxRuns == 2
MaxLoss == 2
MaxSchedLen == 20
MaxSchedSteps == 21

VARIABLES
    \* arguments of the run (fixed by the config file, the same in every launch)
    trainer, epochs, dl_len, eval_len, train_batch_size,
    log_steps, ckpt_steps, gradient_accumulation_steps, n_gpu,
    \* what outlives a process: the files, and the number of launches so far
    fs, run,
    \* the process: position, raised exception, trainer fields, locals of train()
    pc, err, model, optimizer, scheduler,
    losses, global_steps, local_steps, step_loss, start_epoch, start_step,
    epoch, step, eval_steps, postfix,
    \* history: backward passes applied by the latest optimizer.step(),
    \* evaluate() calls and writes of the results file of this train() call
    step_applied, eval_calls, log_writes,
    \* the learning-rate schedule of the electra main script
    num_training_steps, num_warmup_steps, last_epoch, lr

cfgvars == <<trainer, epochs, dl_len, eval_len, train_batch_size,
             log_steps, ckpt_steps, gradient_accumulation_steps, n_gpu>>
locals == <<losses, global_steps, local_steps, step_loss, start_epoch,
            start_step, epoch, step, eval_steps, postfix>>
history == <<step_applied, eval_calls, log_writes>>
schedvars == <<num_training_steps, num_warmup_steps, last_epoch, lr>>
vars == <<cfgvars, fs, run, pc, err, model, optimizer, scheduler, locals,
          history, schedvars>>

\* ------------------------------------------------------------- file names
\* f'{self.checkpoint_path}/{self.model_name}.pth'
ReformerCkptFile == "model_name.pth"
\* the files ElectraTrainer.train loads at start
ElectraModelLoadFile == "electra_model_state_dict.pt"
ElectraOptimizerLoadFile == "electra_optimizer_state_dict.pt"
\* the files ElectraTrainer.train writes when it checkpoints
ElectraModelSaveFile == "last_electra_model_state_dict.pt"
ElectraOptimizerSaveFile == "last_electra_optimizer_state_dict.pt"
ReformerResultsFile == "model_name_train_results.json"
ElectraResultsFile == "electra_train_results.json"

\* ------------------------------------------------------------ data helpers
EmptyDict == [k \in {} |-> 0]

\* d[k] = v on a python dict
DictSet(d, k, v) == [x \in (DOMAIN d) \cup {k} |-> IF x = k THEN v ELSE d[x]]

\* torch.save(content, name) / open(name, 'w')
WriteFile(files, name, content) ==
    [n \in (DOMAIN files) \cup {name} |-> IF n = name THEN content ELSE files[n]]

\* os.path.isfile
IsFile(files, name) == name \in DOMAIN files

\* a freshly constructed model: no update yet, nn.Module starts in training
\* mode, not wrapped in DataParallel, no gradient
FreshModel == [weights |-> 0, training |-> TRUE, wrapped |-> FALSE, grad |-> 0]

\* model.state_dict(): the keys of a DataParallel wrapper carry the prefix
\* "module.", the keys of the bare model do not
StateDict(m) == [weights |-> m.weights, prefixed |-> m.wrapped]

\* load_state_dict is strict: the keys must be the keys of the receiving model
StateDictFits(m, sd) == sd.prefixed = m.wrapped

LoadStateDict(m, sd) == [m EXCEPT !.weights = sd.weights]

\* self.model.train()
TrainMode(m) == [m EXCEPT !.training = TRUE]

\* self.model.eval()
EvalMode(m) == [m EXCEPT !.training = FALSE]

\* if self.n_gpu > 1: self.model = nn.DataParallel(self.model)
\* (a new DataParallel module is itself in training mode)
Wrap(m, gpus) == IF gpus > 1 THEN [m EXCEPT !.wrapped = TRUE] ELSE m

\* loss.item(): the forward pass is an opaque function of weights and batch
LossItem(w, s) == 1 + ((w + s) % MaxLoss)


\* --------------------------------------------------- pieces of the loop body
\* local_steps += 1 / global_steps += 1
CountStep(n) == n + 1

\* if global_steps % gradient_accumulation_steps == 0:
AccumulationDue(gs, ga) == gs % ga = 0

\* the log condition tested before global_steps is incremented
LogDueBeforeIncrement(gs, ls) == (gs - 1) % ls = 0

\* if global_steps % log_steps == 0:
LogDue(gs, ls) == gs % ls = 0

\* if global_steps % ckpt_steps == 0:
CkptDue(gs, cs) == gs % cs = 0

\* loss.backward() adds one backward pass to the gradients
Backward(m) == [m EXCEPT !.grad = @ + 1]

\* optimizer.step() applies the accumulated gradients to the weights
OptimizerStep(m) == [m EXCEPT !.weights = @ + 1]

\* self.model.zero_grad() / optimizer.zero_grad()
ZeroGrad(m) == [m EXCEPT !.grad = 0]

\* pb.set_postfix_str(f'Train Loss: {step_loss / local_steps} | Steps: {global_steps}')
\* the quotient is kept as numerator and denominator
Postfix(sl, ls, gs) == <<sl, ls, gs>>

\* an uncaught exception ends the process where it stands
Raise(e) ==
    /\ pc' = "error"
    /\ err' = e
    /\ UNCHANGED <<cfgvars, fs, run, model, optimizer, scheduler, locals,
                   history, schedvars>>

\* ---------------------------------------------------------- ReformerTrainer
\* start_step = global_steps if start_epoch==0
\*              else global_steps*self.train_batch_size % len(train_dataloader)
StartStep(se, gs, bs, len) == IF se = 0 THEN gs ELSE (gs * bs) % len

\* the dictionary ReformerTrainer.save hands to torch.save
ReformerSaveDict(e, m, opt, ls, ts) ==
    [epoch |-> e,
     model_state_dict |-> StateDict(m),
     optimizer_state_dict |-> opt,
     losses |-> ls,
     train_step |-> ts]

ReformerSave(files, e, m, opt, ls, ts) ==
    WriteFile(files, ReformerCkptFile, ReformerSaveDict(e, m, opt, ls, ts))

\* the keys train() subscripts the loaded checkpoint with, in the order read
ReformerReadKeys == {"epoch", "loss", "train_step", "model_state_dict",
                     "optimizer_state_dict"}

\* for epoch in range(start_epoch, epochs): the first iteration, or none
EnterEpochs(se) ==
    /\ epoch' = se
    /\ step' = 0
    /\ pc' = IF se < epochs THEN "batch" ELSE "final"

\* train(), lines 79-107, no checkpoint file on disk
ReformerTrainFresh ==
    /\ pc = "start" /\ trainer = "reformer"
    /\ ~IsFile(fs, ReformerCkptFile)
    /\ losses' = EmptyDict
    /\ global_steps' = 0 /\ local_steps' = 0 /\ step_loss' = 0
    /\ start_epoch' = 0 /\ start_step' = 0
    /\ optimizer' = 0
    /\ model' = Wrap(TrainMode(model), n_gpu)
    /\ EnterEpochs(0)
    /\ UNCHANGED <<cfgvars, fs, run, err, scheduler, eval_steps, postfix,
                   history, schedvars>>

\* train(), lines 79-107, checkpoint file on disk and every read succeeds
ReformerTrainResume ==
    /\ pc = "start" /\ trainer = "reformer"
    /\ IsFile(fs, ReformerCkptFile)
    /\ LET checkpoint == fs[ReformerCkptFile] IN
        /\ ReformerReadKeys \subseteq DOMAIN checkpoint
        /\ StateDictFits(model, checkpoint["model_state_dict"])
        /\ start_epoch' = checkpoint["epoch"]
        /\ losses' = checkpoint["loss"]
        /\ global_steps' = checkpoint["train_step"]
        /\ start_step' = StartStep(checkpoint["epoch"], checkpoint["train_step"],
                                   train_batch_size, dl_len)
        /\ model' = Wrap(TrainMode(LoadStateDict(model,
                              checkpoint["model_state_dict"])), n_gpu)
        /\ optimizer' = checkpoint["optimizer_state_dict"]
        /\ EnterEpochs(checkpoint["epoch"])
    /\ local_steps' = 0 /\ step_loss' = 0
    /\ UNCHANGED <<cfgvars, fs, run, err, scheduler, eval_steps, postfix,
                   history, schedvars>>

\* train(), lines 88-91: checkpoint[key] on a key the file does not hold
ReformerResumeKeyError ==
    /\ pc = "start" /\ trainer = "reformer"
    /\ IsFile(fs, ReformerCkptFile)
    /\ ~(ReformerReadKeys \subseteq DOMAIN fs[ReformerCkptFile])
    /\ Raise("KeyError")

\* train(), line 94: load_state_dict of a state dict with other keys
ReformerResumeStateDictError ==
    /\ pc = "start" /\ trainer = "reformer"
    /\ IsFile(fs, ReformerCkptFile)
    /\ ReformerReadKeys \subseteq DOMAIN fs[ReformerCkptFile]
    /\ ~StateDictFits(model, fs[ReformerCkptFile]["model_state_dict"])
    /\ Raise("RuntimeError")

\* lines 116-118: if step < start_step: continue
ReformerSkipBatch ==
    /\ pc = "batch" /\ trainer = "reformer"
    /\ step < dl_len
    /\ step < start_step
    /\ step' = step + 1
    /\ UNCHANGED <<cfgvars, fs, run, pc, err, model, optimizer, scheduler,
                   losses, global_steps, local_steps, step_loss, start_epoch,
                   start_step, epoch, eval_steps, postfix, history, schedvars>>

\* lines 119-147: one iteration of the batch loop
ReformerTrainStep ==
    /\ pc = "batch" /\ trainer = "reformer"
    /\ step < dl_len
    /\ ~(step < start_step)
    /\ LET loss == LossItem(model.weights, step)
           m1 == Backward(model)
           sl1 == step_loss + loss
           losses1 == DictSet(losses, global_steps, loss)
           ls1 == CountStep(local_steps)
           gs1 == CountStep(global_steps)
           acc == AccumulationDue(gs1, gradient_accumulation_steps)
           m2 == IF acc THEN ZeroGrad(OptimizerStep(m1)) ELSE m1
           opt2 == IF acc THEN optimizer + 1 ELSE optimizer
           log == LogDue(gs1, log_steps)
           fs1 == IF log THEN WriteFile(fs, ReformerResultsFile, losses1) ELSE fs
           fs2 == IF CkptDue(gs1, ckpt_steps)
                  THEN ReformerSave(fs1, epoch, m2, opt2, losses1, gs1)
                  ELSE fs1
       IN IF log /\ ls1 = 0
          THEN Raise("ZeroDivisionError")
          ELSE /\ model' = m2
               /\ optimizer' = opt2
               /\ step_applied' = IF acc THEN m1.grad ELSE step_applied
               /\ log_writes' = IF log THEN log_writes + 1 ELSE log_writes
               /\ losses' = losses1
               /\ global_steps' = gs1
               /\ postfix' = IF log THEN Postfix(sl1, ls1, gs1) ELSE postfix
               /\ step_loss' = IF log THEN 0 ELSE sl1
               /\ local_steps' = IF log THEN 0 ELSE ls1
               /\ fs' = fs2
               /\ step' = step + 1
               /\ UNCHANGED <<cfgvars, run, pc, err, scheduler, start_epoch,
                              start_step, epoch, eval_steps, eval_calls,
                              schedvars>>

\* line 153: self.save(epochs, self.model, optimizer, losses, global_steps)
ReformerFinalSave ==
    /\ pc = "final" /\ trainer = "reformer"
    /\ fs' = ReformerSave(fs, epochs, model, optimizer, losses, global_steps)
    /\ pc' = "done"
    /\ UNCHANGED <<cfgvars, run, err, model, optimizer, scheduler, locals,
                   history, schedvars>>

\* ------------------------------------------------------------------ evaluate
\* line 150 and evaluate(), lines 158-167: the batch loop is exhausted
\* (electra-model.py 178, 188-197 is the same code)
EvaluateBegin ==
    /\ pc = "batch"
    /\ step = dl_len
    /\ model' = EvalMode(IF n_gpu > 1 /\ ~model.wrapped
                         THEN Wrap(model, n_gpu) ELSE model)
    /\ eval_steps' = 0
    /\ eval_calls' = eval_calls + 1
    /\ pc' = "eval"
    /\ UNCHANGED <<cfgvars, fs, run, err, optimizer, scheduler, losses,
                   global_steps, local_steps, step_loss, start_epoch,
                   start_step, epoch, step, postfix, step_applied, log_writes,
                   schedvars>>

\* evaluate(), lines 168-200: one batch of the evaluation loop, under no_grad
EvaluateStep ==
    /\ pc = "eval"
    /\ eval_steps < eval_len
    /\ eval_steps' = eval_steps + 1
    /\ UNCHANGED <<cfgvars, fs, run, pc, err, model, optimizer, scheduler,
                   losses, global_steps, local_steps, step_loss, start_epoch,
                   start_step, epoch, step, postfix, history, schedvars>>

\* line 151 left out: the model stays in the mode evaluate() put it in
RestoreTrainModeForgotten(m) == m

\* line 151, self.model.train() after evaluate() returned
RestoreTrainMode(m) == TrainMode(m)

\* evaluate() returns, line 151, and the epoch loop moves on
EvaluateReturn ==
    /\ pc = "eval"
    /\ eval_steps = eval_len
    /\ model' = RestoreTrainMode(model)
    /\ epoch' = epoch + 1
    /\ step' = 0
    /\ pc' = IF epoch + 1 < epochs THEN "batch" ELSE "final"
    /\ UNCHANGED <<cfgvars, fs, run, err, optimizer, scheduler, losses,
                   global_steps, local_steps, step_loss, start_epoch,
                   start_step, eval_steps, postfix, history, schedvars>>


\* ----------------------------------------------------------- ElectraTrainer
\* model_to_save = self.model.module if hasattr(self.model, 'module') else self.model
ModelToSave(m) == [m EXCEPT !.wrapped = FALSE]

\* lines 172-174 and 181-183: the two torch.save calls of a checkpoint
ElectraSave(files, m, opt) ==
    WriteFile(WriteFile(files, ElectraModelSaveFile, StateDict(ModelToSave(m))),
              ElectraOptimizerSaveFile, opt)

\* lines 115-120: the try block; an exception leaves what was loaded before it
ElectraLoadModel(files, m) ==
    IF IsFile(files, ElectraModelLoadFile)
       /\ StateDictFits(m, files[ElectraModelLoadFile])
    THEN LoadStateDict(m, files[ElectraModelLoadFile])
    ELSE m

\* line 118 is reached only when line 117 did not raise
ElectraLoadOptimizer(files, m, opt) ==
    IF IsFile(files, ElectraModelLoadFile)
       /\ StateDictFits(m, files[ElectraModelLoadFile])
       /\ IsFile(files, ElectraOptimizerLoadFile)
    THEN files[ElectraOptimizerLoadFile]
    ELSE opt

\* train(), lines 108-132 (ckpt_dir is the directory the main script passes)
ElectraTrainBegin ==
    /\ pc = "start" /\ trainer = "electra"
    /\ losses' = EmptyDict
    /\ global_steps' = 0 /\ local_steps' = 0 /\ step_loss' = 0
    /\ model' = Wrap(TrainMode(ElectraLoadModel(fs, model)), n_gpu)
    /\ optimizer' = ElectraLoadOptimizer(fs, model, optimizer)
    /\ EnterEpochs(0)
    /\ UNCHANGED <<cfgvars, fs, run, err, scheduler, start_epoch, start_step,
                   eval_steps, postfix, history, schedvars>>

\* lines 141-176: one iteration of the batch loop
ElectraTrainStep ==
    /\ pc = "batch" /\ trainer = "electra"
    /\ step < dl_len
    /\ LET loss == LossItem(model.weights, step)
           m1 == Backward(model)
           sl1 == step_loss + loss
           losses1 == DictSet(losses, global_steps, loss)
           ls1 == CountStep(local_steps)
           gs1 == CountStep(global_steps)
           acc == AccumulationDue(gs1, gradient_accumulation_steps)
           m2 == IF acc THEN ZeroGrad(OptimizerStep(m1)) ELSE m1
           opt2 == IF acc THEN optimizer + 1 ELSE optimizer
           log == LogDue(gs1, log_steps)
           fs1 == IF log THEN WriteFile(fs, ElectraResultsFile, losses1) ELSE fs
           fs2 == IF CkptDue(gs1, ckpt_steps) THEN ElectraSave(fs1, m2, opt2)
                  ELSE fs1
       IN IF log /\ ls1 = 0
          THEN Raise("ZeroDivisionError")
          ELSE /\ model' = m2
               /\ optimizer' = opt2
               /\ scheduler' = IF acc THEN scheduler + 1 ELSE scheduler
               /\ step_applied' = IF acc THEN m1.grad ELSE step_applied
               /\ log_writes' = IF log THEN log_writes + 1 ELSE log_writes
               /\ losses' = losses1
               /\ global_steps' = gs1
               /\ postfix' = IF log THEN Postfix(sl1, ls1, gs1) ELSE postfix
               /\ step_loss' = IF log THEN 0 ELSE sl1
               /\ local_steps' = IF log THEN 0 ELSE ls1
               /\ fs' = fs2
               /\ step' = step + 1
               /\ UNCHANGED <<cfgvars, run, pc, err, start_epoch, start_step,
                              epoch, eval_steps, eval_calls, schedvars>>

\* lines 181-185
ElectraFinalSave ==
    /\ pc = "final" /\ trainer = "electra"
    /\ fs' = ElectraSave(fs, model, optimizer)
    /\ pc' = "done"
    /\ UNCHANGED <<cfgvars, run, err, model, optimizer, scheduler, locals,
                   history, schedvars>>

\* ------------------------------------------------------------- the process
\* the state of a process in which main has built the trainer and is about
\* to call train()
ProcessStart ==
    /\ pc = "start" /\ err = "none"
    /\ model = FreshModel /\ optimizer = 0 /\ scheduler = 0
    /\ losses = EmptyDict
    /\ global_steps = 0 /\ local_steps = 0 /\ step_loss = 0
    /\ start_epoch = 0 /\ start_step = 0
    /\ epoch = 0 /\ step = 0 /\ eval_steps = 0 /\ postfix = <<>>
    /\ step_applied = 0 /\ eval_calls = 0 /\ log_writes = 0

\* the script is launched again (after it finished, failed or was stopped):
\* a new process, the same configuration, the files as they were left
Relaunch ==
    /\ pc # "start"
    /\ run < MaxRuns
    /\ run' = run + 1
    /\ pc' = "start" /\ err' = "none"
    /\ model' = FreshModel /\ optimizer' = 0 /\ scheduler' = 0
    /\ losses' = EmptyDict
    /\ global_steps' = 0 /\ local_steps' = 0 /\ step_loss' = 0
    /\ start_epoch' = 0 /\ start_step' = 0
    /\ epoch' = 0 /\ step' = 0 /\ eval_steps' = 0 /\ postfix' = <<>>
    /\ step_applied' = 0 /\ eval_calls' = 0 /\ log_writes' = 0
    /\ UNCHANGED <<cfgvars, fs, schedvars>>

\* ------------------------------------------------- files found at first launch
EmptyFs == [n \in {} |-> 0]

\* (epoch, train_step) of the periodic checkpoints a run of this configuration
\* takes: after batch `step` of epoch e, train_step = e * len + step + 1
PeriodicPoints ==
    {p \in (0 .. epochs - 1) \X (1 .. epochs * dl_len) :
        /\ p[1] * dl_len < p[2]
        /\ p[2] <= (p[1] + 1) * dl_len
        /\ CkptDue(p[2], ckpt_steps)}

\* a checkpoint file whose keys are the keys train() reads (lines 89-95):
\* train() takes whatever file lies at the checkpoint path, and only a file
\* of this layout gets past line 90, so the resumed part of train() is
\* reached from such a file; a file save() wrote holds 'losses' instead
ReadableCheckpoint(e, ts, pre) ==
    [epoch |-> e,
     model_state_dict |-> [weights |-> ts \div gradient_accumulation_steps,
                           prefixed |-> pre],
     optimizer_state_dict |-> ts \div gradient_accumulation_steps,
     loss |-> [k \in 0 .. ts - 1 |-> 1],
     train_step |-> ts]

ReformerFiles ==
    {EmptyFs} \cup
    {WriteFile(EmptyFs, ReformerCkptFile, ReadableCheckpoint(p[1], p[2], pre)) :
        p \in PeriodicPoints, pre \in BOOLEAN}

\* the files train() looks for in ckpt_dir, each present or not at first launch
ElectraFiles ==
    {[n \in S |-> IF n = ElectraModelLoadFile
                  THEN [weights |-> 1, prefixed |-> FALSE] ELSE 1] :
        S \in SUBSET {ElectraModelLoadFile, ElectraOptimizerLoadFile}}

SchedIdle ==
    /\ num_training_steps = 0 /\ num_warmup_steps = 0 /\ last_epoch = 0
    /\ lr = <<>>

Init ==
    /\ trainer \in {"reformer", "electra"}
    /\ epochs \in 1 .. MaxEpochs
    /\ dl_len \in 1 .. MaxLen
    /\ eval_len \in 1 .. MaxEvalLen
    /\ train_batch_size \in 1 .. MaxBatch
    /\ log_steps \in 1 .. MaxPeriod
    /\ ckpt_steps \in 1 .. MaxPeriod
    /\ gradient_accumulation_steps \in 1 .. MaxPeriod
    /\ n_gpu \in {1, 2}
    /\ fs \in IF trainer = "reformer" THEN ReformerFiles ELSE ElectraFiles
    /\ run = 1
    /\ ProcessStart
    /\ SchedIdle

Next ==
    \/ ReformerTrainFresh
    \/ ReformerTrainResume
    \/ ReformerResumeKeyError
    \/ ReformerResumeStateDictError
    \/ ReformerSkipBatch
    \/ ReformerTrainStep
    \/ ReformerFinalSave
    \/ ElectraTrainBegin
    \/ ElectraTrainStep
    \/ ElectraFinalSave
    \/ EvaluateBegin
    \/ EvaluateStep
    \/ EvaluateReturn
    \/ Relaunch

Spec == Init /\ [][Next]_vars


\* ----------------------------------------- the learning-rate schedule (electra)
Max(a, b) == IF a >= b THEN a ELSE b
Min(a, b) == IF a <= b THEN a ELSE b

\* int(len(train_dataloader) / batch_size / gradient_accumulation_steps)
NumTrainOptimizationSteps(len, bs, ga) == len \div (bs * ga)

\* int(num_train_optimization_steps * 0.1)
WarmupSteps(n) == n \div 10

\* lr_lambda divides by num_training_steps, then by num_warmup_steps
LrLambdaDefined(w, n) == n # 0 /\ w # 0

\* max(0.0, 1 - s/n) * min(1.0, s/w) as the fraction <<numerator, denominator>>:
\* max(0, n - s) / n  times  min(w, s) / w
LrLambda(s, w, n) == <<Max(0, n - s) * Min(w, s), n * w>>

\* __main__, lines 291-306: LambdaLR's constructor evaluates lr_lambda at step 0
MainPrepareOptimizer ==
    /\ pc = "main"
    /\ LET n == NumTrainOptimizationSteps(dl_len, train_batch_size,
                                          gradient_accumulation_steps)
           w == WarmupSteps(n)
       IN /\ num_training_steps' = n
          /\ num_warmup_steps' = w
          /\ last_epoch' = 0
          /\ IF LrLambdaDefined(w, n)
             THEN lr' = LrLambda(0, w, n) /\ pc' = "sched" /\ err' = err
             ELSE lr' = lr /\ pc' = "error" /\ err' = "ZeroDivisionError"
    /\ UNCHANGED <<cfgvars, fs, run, model, optimizer, scheduler, locals,
                   history>>

\* scheduler.step() (line 155): last_epoch += 1, lr_lambda(last_epoch)
SchedulerStep ==
    /\ pc = "sched"
    /\ last_epoch < MaxSchedSteps
    /\ last_epoch' = last_epoch + 1
    /\ lr' = LrLambda(last_epoch + 1, num_warmup_steps, num_training_steps)
    /\ UNCHANGED <<cfgvars, fs, run, pc, err, model, optimizer, scheduler,
                   locals, history, num_training_steps, num_warmup_steps>>

InitSched ==
    /\ trainer = "electra"
    /\ epochs = 1
    /\ dl_len \in 1 .. MaxSchedLen
    /\ eval_len = 1
    /\ train_batch_size \in 1 .. MaxBatch
    /\ log_steps = 1
    /\ ckpt_steps = 1
    /\ gradient_accumulation_steps \in 1 .. MaxPeriod
    /\ n_gpu = 1
    /\ fs = EmptyFs
    /\ run = 1
    /\ pc = "main" /\ err = "none"
    /\ model = FreshModel /\ optimizer = 0 /\ scheduler = 0
    /\ losses = EmptyDict
    /\ global_steps = 0 /\ local_steps = 0 /\ step_loss = 0
    /\ start_epoch = 0 /\ start_step = 0
    /\ epoch = 0 /\ step = 0 /\ eval_steps = 0 /\ postfix = <<>>
    /\ step_applied = 0 /\ eval_calls = 0 /\ log_writes = 0
    /\ SchedIdle

NextSched ==
    \/ MainPrepareOptimizer
    \/ SchedulerStep

SpecSched == InitSched /\ [][NextSched]_vars


\* ===================================================================== claims
\* a checkpoint file that ReformerTrainer.save wrote (it holds save's keys)
WrittenBySave(c) ==
    DOMAIN c = DOMAIN ReformerSaveDict(0, FreshModel, 0, EmptyDict, 0)

\* train() of ReformerTrainer starts and finds a checkpoint file
ReformerStartsOnFile ==
    pc = "start" /\ trainer = "reformer" /\ IsFile(fs, ReformerCkptFile)

\* C1: a checkpoint written by save() is loaded by the next train(): the
\* resume raises nothing and start_epoch, losses and global_steps are the
\* saved epoch, losses and train_step.
C1_SavedCheckpointResumes ==
    [][(ReformerStartsOnFile /\ WrittenBySave(fs[ReformerCkptFile]))
        => /\ pc' # "error"
           /\ start_epoch' = fs[ReformerCkptFile]["epoch"]
           /\ losses' = fs[ReformerCkptFile]["losses"]
           /\ global_steps' = fs[ReformerCkptFile]["train_step"]]_vars

\* C2: resuming from the periodic checkpoint taken in epoch e after
\* train_step global steps, start_step is the number of batches of epoch e
\* processed before the checkpoint, train_step - e * len(train_dataloader).
C2_StartStepIsProcessedBatches ==
    [][(/\ ReformerStartsOnFile
        /\ pc' = "batch"
        /\ <<start_epoch', global_steps'>> \in PeriodicPoints)
        => start_step' = global_steps' - start_epoch' * dl_len]_vars

\* C3: every optimizer.step() applies the gradients of exactly
\* gradient_accumulation_steps backward passes (step_applied = 0: no
\* optimizer step yet in this train() call), also in a resumed run.
C3_StepAppliesFullAccumulation ==
    step_applied = 0 \/ step_applied = gradient_accumulation_steps

\* C4: ElectraTrainer.train started on a ckpt_dir in which an earlier run
\* saved its model and optimizer state continues from that saved state.
C4_ElectraContinuesFromSaved ==
    [][(/\ pc = "start" /\ trainer = "electra"
        /\ IsFile(fs, ElectraModelSaveFile)
        /\ IsFile(fs, ElectraOptimizerSaveFile))
        => /\ model'.weights = fs[ElectraModelSaveFile].weights
           /\ optimizer' = fs[ElectraOptimizerSaveFile]]_vars

\* the epochs train() has gone through when it is in an epoch's batch loop
EpochsBefore == epoch - start_epoch

\* evaluate() has run once for each epoch gone through, and runs after the
\* last batch of the epoch
EvaluateOncePerEpoch ==
    /\ pc = "batch" => eval_calls = EpochsBefore
    /\ pc = "eval" => eval_calls = EpochsBefore + 1 /\ step = dl_len
    /\ pc \in {"final", "done"} =>
          eval_calls = IF start_epoch < epochs THEN epochs - start_epoch ELSE 0

\* a training step runs in train mode, an evaluation step in eval mode
ModeMatchesStep ==
    /\ (pc = "batch" /\ global_steps' = global_steps + 1) => model.training
    /\ (pc = "eval" /\ eval_steps' = eval_steps + 1) => ~model.training

\* C5: evaluate() runs exactly once per executed epoch, after its last batch
\* and before the next epoch's first; the model is in eval mode during every
\* evaluation step and in train mode during every training step.
C5_EvaluateEveryEpoch ==
    [](EvaluateOncePerEpoch) /\ [][ModeMatchesStep]_vars

C5_Witness ==
    /\ pc = "batch" /\ epoch = 1 /\ start_epoch = 0 /\ step = 1
    /\ eval_calls = 1 /\ model.training /\ global_steps = dl_len + 1
    /\ n_gpu = 2 /\ model.wrapped

\* C6: the model state a trainer writes to a checkpoint is the state of the
\* unwrapped model (no "module." prefix), with or without DataParallel.
C6_CheckpointHoldsUnwrappedState ==
    /\ (IsFile(fs, ReformerCkptFile) /\ WrittenBySave(fs[ReformerCkptFile]))
          => ~fs[ReformerCkptFile]["model_state_dict"].prefixed
    /\ IsFile(fs, ElectraModelSaveFile) => ~fs[ElectraModelSaveFile].prefixed

ResultsFile ==
    IF trainer = "reformer" THEN ReformerResultsFile ELSE ElectraResultsFile

\* this step wrote the training results file
WroteResults == log_writes' = log_writes + 1

TrainStepped == pc = "batch" /\ global_steps' = global_steps + 1

LoggingStep ==
    /\ TrainStepped =>
          (WroteResults <=> (global_steps' > 0 /\ global_steps' % log_steps = 0))
    /\ ~TrainStepped => ~WroteResults
    /\ WroteResults =>
          /\ IsFile(fs', ResultsFile)
          /\ fs'[ResultsFile] = losses'
          /\ postfix'[2] >= 1
          /\ postfix'[2] = local_steps + 1
          /\ postfix'[3] = global_steps'
          /\ local_steps' = 0 /\ step_loss' = 0
    /\ (~WroteResults /\ pc # "start" /\ pc' # "start") =>
          /\ local_steps' >= local_steps
          /\ step_loss' >= step_loss

\* C7: the training results are written exactly at the global steps that
\* are positive multiples of log_steps; at every write local_steps >= 1, so
\* step_loss / local_steps never divides by zero (also after a resume);
\* step_loss and local_steps are reset to 0 right after the write and
\* nowhere else in the loop.
C7_PeriodicLogging ==
    [](err # "ZeroDivisionError") /\ [][LoggingStep]_vars

C7_Witness ==
    /\ trainer = "reformer" /\ pc = "batch" /\ start_step > 0
    /\ Len(postfix) = 3 /\ postfix[2] = 1 /\ postfix[3] > 2
    /\ local_steps = 0 /\ log_steps = 2

\* C8: after a resume, batches are skipped only in the epoch in which
\* training resumed, and the run ends with
\* global_steps = epochs * len(train_dataloader).
C8_SkipOnlyInResumedEpoch ==
    [][/\ (pc = "batch" /\ step' = step + 1 /\ global_steps' = global_steps)
            => epoch = start_epoch
       /\ (trainer = "reformer" /\ pc' = "done")
            => global_steps' = epochs * dl_len]_vars

\* C9: when loading the checkpoint fails at any point (model file missing,
\* or optimizer file missing), nothing propagates and both the model and
\* the optimizer are in the state they had before the load was attempted.
C9_FailedLoadLeavesStateUntouched ==
    [][(/\ pc = "start" /\ trainer = "electra"
        /\ ~(IsFile(fs, ElectraModelLoadFile)
             /\ IsFile(fs, ElectraOptimizerLoadFile)))
        => /\ pc' # "error"
           /\ model'.weights = model.weights
           /\ optimizer' = optimizer]_vars

\* C10: for the num_training_steps and num_warmup_steps the electra main
\* script computes, lr_lambda divides by non-zero values at every step and
\* returns a multiplier within [0, 1].
C10_ScheduleDefinedInUnitInterval ==
    /\ err # "ZeroDivisionError"
    /\ lr # <<>> => (lr[2] > 0 /\ 0 <= lr[1] /\ lr[1] <= lr[2])


\* C11: when train() has written its final checkpoint and returns, the
\* gradient of every backward pass it performed has been applied by some
\* optimizer.step(): no backward pass is left accumulated and unapplied.
C11_NoGradientLeftAtEnd ==
    pc = "done" => model.grad = 0

=============================================================================
